---- MODULE Spec2Model ----
(***************************************************************************)
(* Model of the Lovense protocol of buttplug-rs                            *)
(* (buttplug/src/device/protocol/lovense.rs): the identification handshake *)
(* of LovenseProtocolCreator::try_create_protocol and the VibrateCmd and   *)
(* RotateCmd handlers of the Lovense protocol, run by concurrent tasks on  *)
(* one protocol instance; and of the helper functions of the Fleshlight    *)
(* Launch (buttplug/src/device/protocol/fleshlight_launch_helper.rs).      *)
(*                                                                         *)
(* Speeds are the integer step values the generic command manager computes *)
(* from a command; frames are the strings the handlers format.             *)
(***************************************************************************)
EXTENDS Integers, Sequences, FiniteSets, TLC

\* ------------------------------------------------------------------ bounds
\* Largest step value of a motor: speeds range over 0..MaxLevel.
MaxLevel == 1
\* Largest number of vibration motors of a configured device, and the
\* longest Vibrate command.
MaxMotors == 2
\* Longest notification payload, in bytes.
MaxPayloadLen == 3
\* Number of tasks that call handle on one protocol instance.
NumTasks == 2
\* Longest duration a launch helper is called with, in hundreds.
MaxDuration == 5
\* Number of rotation motors of a Lovense device (the handler reads cmds[0]).
RotMotors == 1

\* Option<T>: None is the empty sequence and Some(v) the sequence of v alone.
None == <<>>
Some(v) == <<v>>
unwrap(o) == o[1]
Tasks == 1..NumTasks
Levels == 0..MaxLevel

\* ------------------------------------------------------ sequences of bytes
\* Bytes of a notification payload: two letters, the field delimiter, and a
\* byte that is not valid UTF-8.
Colon == ":"
BadByte == "xFF"
Bytes == {"A", "B", Colon, BadByte}

SeqsUpTo(S, n) == UNION {[1..k -> S] : k \in 0..n}

Payloads == SeqsUpTo(Bytes, MaxPayloadLen)

\* std::str::from_utf8(&n): Ok exactly when every byte is valid.
FromUtf8Ok(n) == \A i \in 1..Len(n) : n[i] # BadByte

\* Index of the first delimiter of s, or Len(s) + 1 when there is none.
FirstColon(s) ==
    IF \E i \in 1..Len(s) : s[i] = Colon
    THEN CHOOSE i \in 1..Len(s) : s[i] = Colon /\ \A j \in 1..(i - 1) : s[j] # Colon
    ELSE Len(s) + 1

\* Identifier taking the field after the last colon.
Identifier_Last(type_response) ==
    IF FirstColon(type_response) > Len(type_response) THEN type_response
    ELSE LET k == CHOOSE i \in 1..Len(type_response) :
                    /\ type_response[i] = Colon
                    /\ \A j \in (i + 1)..Len(type_response) : type_response[j] # Colon
         IN SubSeq(type_response, k + 1, Len(type_response))

\* type_response.split(':').collect::<Vec<&str>>()[0]
Identifier(type_response) == SubSeq(type_response, 1, FirstColon(type_response) - 1)

\* ------------------------------------------------- configuration collaborator
\* DeviceProtocolConfiguration::get_attributes: the identifiers "A", "AA", ...
\* are configured, a device named by k letters A having k vibration motors;
\* "B" is configured without an "en-us" name.  Everything else is unknown.
IsMotorKey(identifier) ==
    /\ Len(identifier) \in 1..MaxMotors
    /\ \A i \in 1..Len(identifier) : identifier[i] = "A"

NoNameKey == <<"B">>

get_attributes(identifier) ==
    IF IsMotorKey(identifier) THEN Some([en_us |-> TRUE, motors |-> Len(identifier)])
    ELSE IF identifier = NoNameKey THEN Some([en_us |-> FALSE, motors |-> 1])
    ELSE None

\* ------------------------------------------------------------------ state
VARIABLES
    \* LovenseProtocolCreator::try_create_protocol, one call at a time
    hpc,             \* the statement the call is at
    hresult,         \* what the call returned: "none" while it runs
    ops,             \* the transport operations the call made, in order
    events,          \* the device's event stream: events not yet received
    closed,          \* the event stream has ended
    type_response,   \* the notification payload received
    identifier,      \* the lookup key parsed from the payload
    lookups,         \* the keys the configuration was asked for (ghost)
    \* the Lovense protocol instance
    protocol,        \* None, or the attributes it was constructed with
    manager,         \* GenericCommandManager: last value sent to each motor
    last_rotation,   \* Option<(u32, bool)>
    manager_lock,    \* holder of self.manager's mutex
    rotation_lock,   \* holder of self.last_rotation's mutex
    calls,           \* per task: the handle call it runs
    history,         \* the commands the manager has accepted (ghost)
    device,          \* what the device has been delivered
    \* fleshlight_launch_helper
    launch           \* the call of a helper function: its arguments and result

creator_vars == <<hpc, hresult, ops, events, closed, type_response, identifier, lookups>>
protocol_vars == <<protocol, manager, last_rotation, manager_lock, rotation_lock,
                   calls, history, device>>
vars == <<hpc, hresult, ops, events, closed, type_response, identifier, lookups,
          protocol, manager, last_rotation, manager_lock, rotation_lock,
          calls, history, device, launch>>

\* The last Vibrate and the last Rotate command the manager accepted, the
\* direction of the first Rotate command taken into last_rotation, and the
\* command of the call that has just failed on a write (None once another
\* call is made).
NoHistory == [vibrate |-> None, rotate |-> None, first_dir |-> None,
              failed |-> None]

NoResult == [ok |-> TRUE, cmds |-> <<>>]

\* A task that is not inside handle.
IdleCall == [pc |-> "idle", kind |-> "none", msg |-> <<>>, prev |-> None,
             result |-> NoResult, lovense_cmds |-> <<>>, written |-> <<>>,
             ret |-> "none", retry |-> FALSE]

NoManager == [vibrations |-> <<>>, rotations |-> <<>>]

\* The device as the frames delivered to it have set it: the speed last
\* delivered to each vibration motor (None before any), and whether the
\* number of direction changes delivered is odd.
NewDevice(motors) ==
    [known |-> TRUE, vibrations |-> [i \in 1..motors |-> None], odd |-> FALSE]

\* Nothing is known of the device: there is no protocol instance, or one of
\* its writes has failed.
NoDevice == [known |-> FALSE, vibrations |-> <<>>, odd |-> FALSE]

\* No helper function is called.
NoLaunch == [f |-> "none", duration |-> 0, x |-> None, result |-> None]

\* The creator with no call made and no protocol instance.
NoProtocol ==
    /\ hpc = "idle"
    /\ hresult = "none"
    /\ ops = <<>>
    /\ events = <<>>
    /\ closed = FALSE
    /\ type_response = None
    /\ identifier = None
    /\ lookups = <<>>
    /\ protocol = None
    /\ manager = NoManager
    /\ last_rotation = None
    /\ manager_lock = None
    /\ rotation_lock = None
    /\ calls = [t \in Tasks |-> IdleCall]
    /\ history = NoHistory
    /\ device = NoDevice

Init == NoProtocol /\ launch = NoLaunch

\* --------------------------------------------------------------- transport
\* A transport operation of the handshake and how it ended: "Ok" or "Err" for
\* a command, the event (or "None") for a read of the event stream.
Op(name, outcome) == [op |-> name, outcome |-> outcome]
Outcome(ok) == IF ok THEN "Ok" ELSE "Err"

Notification(n) == [type |-> "Notification", data |-> n]
Removed == [type |-> "Removed", data |-> <<>>]

\* The device answers the identification request with a notification.
DeviceNotify ==
    /\ hpc = "next" /\ events = <<>> /\ ~closed
    /\ \E n \in Payloads : events' = <<Notification(n)>>
    /\ UNCHANGED <<hpc, hresult, ops, closed, type_response, identifier, lookups>>
    /\ UNCHANGED <<protocol_vars, launch>>

\* The device goes away: the transport reports it removed.
DeviceRemoved ==
    /\ hpc = "next" /\ events = <<>> /\ ~closed
    /\ events' = <<Removed>>
    /\ UNCHANGED <<hpc, hresult, ops, closed, type_response, identifier, lookups>>
    /\ UNCHANGED <<protocol_vars, launch>>

\* The event stream ends without an event.
StreamEnd ==
    /\ hpc = "next" /\ events = <<>> /\ ~closed
    /\ closed' = TRUE
    /\ UNCHANGED <<hpc, hresult, ops, events, type_response, identifier, lookups>>
    /\ UNCHANGED <<protocol_vars, launch>>

\* ------------------------------------------------- try_create_protocol
\* A failed step returns: the call's locals are gone and nothing of the
\* protocol is constructed.
Fail(err) ==
    /\ hpc' = "done"
    /\ hresult' = err
    /\ type_response' = None
    /\ identifier' = None

TryCreateProtocol ==
    /\ hpc = "idle"
    /\ hpc' = "subscribe"
    /\ UNCHANGED <<hresult, ops, events, closed, type_response, identifier, lookups>>
    /\ UNCHANGED <<protocol_vars, launch>>

\* device_impl.subscribe(DeviceSubscribeCmd::new(Endpoint::Rx)).await?
Subscribe ==
    /\ hpc = "subscribe"
    /\ \E ok \in BOOLEAN :
        /\ ops' = Append(ops, Op("subscribe", Outcome(ok)))
        /\ IF ok THEN hpc' = "write_value" /\ UNCHANGED <<hresult, type_response, identifier>>
                 ELSE Fail("TransportError")
    /\ UNCHANGED <<events, closed, lookups>>
    /\ UNCHANGED <<protocol_vars, launch>>

\* WriteDeviceType trying again when the write fails.
WriteDeviceType_Retry ==
    /\ hpc = "write_value"
    /\ \E ok \in BOOLEAN :
        /\ ops' = Append(ops, Op("write_value", Outcome(ok)))
        /\ hpc' = IF ok THEN "next" ELSE "write_value"
        /\ UNCHANGED <<hresult, type_response, identifier>>
    /\ UNCHANGED <<events, closed, lookups>>
    /\ UNCHANGED <<protocol_vars, launch>>

\* device_impl.write_value(DeviceWriteCmd::new(Endpoint::Tx, "DeviceType;")).await?
WriteDeviceType ==
    /\ hpc = "write_value"
    /\ \E ok \in BOOLEAN :
        /\ ops' = Append(ops, Op("write_value", Outcome(ok)))
        /\ IF ok THEN hpc' = "next" /\ UNCHANGED <<hresult, type_response, identifier>>
                 ELSE Fail("TransportError")
    /\ UNCHANGED <<events, closed, lookups>>
    /\ UNCHANGED <<protocol_vars, launch>>

\* MatchEvent taking Removed for the end of the stream.
MatchEvent_RemovedAsNone(event) ==
    IF event = None \/ unwrap(event).type = "Removed"
    THEN [pc |-> "done", ret |-> "NoResponse"]
    ELSE IF FromUtf8Ok(unwrap(event).data)
    THEN [pc |-> "unsubscribe", ret |-> "none"]
    ELSE [pc |-> "done", ret |-> "Panic: from_utf8"]

\* What the match on get_event_receiver().next().await does with an event
\* (None when the stream has ended): the statement it goes to and the result.
MatchEvent(event) ==
    IF event = None
    THEN [pc |-> "done", ret |-> "NoResponse"]
    ELSE IF unwrap(event).type = "Removed"
    THEN [pc |-> "done", ret |-> "Disconnected"]
    ELSE IF FromUtf8Ok(unwrap(event).data)
    THEN [pc |-> "unsubscribe", ret |-> "none"]
    ELSE [pc |-> "done", ret |-> "Panic: from_utf8"]

\* match device_impl.get_event_receiver().next().await { ... }
NextEvent ==
    /\ hpc = "next"
    /\ \/ /\ events # <<>>
          /\ LET event == Head(events)
                 m == MatchEvent(Some(event))
             IN /\ hpc' = m.pc
                /\ hresult' = m.ret
                /\ events' = Tail(events)
                /\ ops' = Append(ops, Op("next", event.type))
                /\ IF m.pc = "unsubscribe"
                   THEN /\ type_response' = event.data
                        /\ identifier' = Identifier(event.data)
                   ELSE UNCHANGED <<type_response, identifier>>
       \/ /\ events = <<>> /\ closed
          /\ hpc' = MatchEvent(None).pc
          /\ hresult' = MatchEvent(None).ret
          /\ ops' = Append(ops, Op("next", "None"))
          /\ UNCHANGED <<events, type_response, identifier>>
    /\ UNCHANGED <<closed, lookups>>
    /\ UNCHANGED <<protocol_vars, launch>>

\* device_impl.unsubscribe(DeviceUnsubscribeCmd::new(Endpoint::Rx)).await?
Unsubscribe ==
    /\ hpc = "unsubscribe"
    /\ \E ok \in BOOLEAN :
        /\ ops' = Append(ops, Op("unsubscribe", Outcome(ok)))
        /\ IF ok THEN hpc' = "get_attributes" /\ UNCHANGED <<hresult, type_response, identifier>>
                 ELSE Fail("TransportError")
    /\ UNCHANGED <<events, closed, lookups>>
    /\ UNCHANGED <<protocol_vars, launch>>

\* What the lookup and its two unwraps end in: Ok, or the unwrap that panics.
Resolve(key) ==
    LET found == get_attributes(key)
    IN IF found = None THEN "Panic: get_attributes"
       ELSE IF ~unwrap(found).en_us THEN "Panic: en-us"
       ELSE "Ok"

\* GenericCommandManager::new(attrs): no motor has been sent anything.
NewManager(motors) ==
    [vibrations |-> [i \in 1..motors |-> None],
     rotations |-> [i \in 1..RotMotors |-> None]]

\* self.config.get_attributes(&identifier).unwrap(); names.get("en-us").unwrap();
\* Ok(Box::new(Lovense::new(name, attrs)))
CreateProtocol ==
    /\ hpc = "get_attributes"
    /\ hpc' = "done"
    /\ hresult' = Resolve(identifier)
    /\ IF Resolve(identifier) = "Ok"
       THEN /\ protocol' = get_attributes(identifier)
            /\ manager' = NewManager(unwrap(get_attributes(identifier)).motors)
            /\ last_rotation' = None
            /\ device' = NewDevice(unwrap(get_attributes(identifier)).motors)
       ELSE UNCHANGED <<protocol, manager, last_rotation, device>>
    /\ lookups' = Append(lookups, identifier)
    /\ type_response' = None
    /\ identifier' = None
    /\ UNCHANGED <<ops, events, closed>>
    /\ UNCHANGED <<manager_lock, rotation_lock, calls, history, launch>>

\* The protocol instance is dropped (the device went away, or the caller gave
\* up on a failed handshake); try_create_protocol may be called again.
Drop ==
    /\ hpc = "done"
    /\ \A t \in Tasks : calls[t].pc = "idle"
    /\ hpc' = "idle"
    /\ hresult' = "none"
    /\ ops' = <<>>
    /\ events' = <<>>
    /\ closed' = FALSE
    /\ type_response' = None
    /\ identifier' = None
    /\ lookups' = <<>>
    /\ protocol' = None
    /\ manager' = NoManager
    /\ last_rotation' = None
    /\ history' = NoHistory
    /\ device' = NoDevice
    /\ UNCHANGED <<manager_lock, rotation_lock, calls, launch>>

\* ------------------------------------------------ generic command manager
\* The commands a client may send: one entry per motor it addresses, which
\* need not be as many as the device has.
VibrateMsgs == UNION {[1..k -> Levels] : k \in 1..MaxMotors}
RotateMsgs == UNION {[1..k -> Levels \X BOOLEAN] : k \in 0..RotMotors}

\* What a motor's entry of the diff is: None when the value is the one last
\* sent, Some(value) otherwise.
Diff(last, value) == IF last = Some(value) THEN None ELSE Some(value)

ValidationError == [ok |-> FALSE, cmds |-> <<>>]

\* update_vibration(msg): the result, and the manager's state after it.
update_vibration(mgr, msg) ==
    IF Len(msg) # Len(mgr.vibrations)
    THEN [result |-> ValidationError, manager |-> mgr]
    ELSE [result |-> [ok |-> TRUE,
                      cmds |-> [i \in 1..Len(msg) |-> Diff(mgr.vibrations[i], msg[i])]],
          manager |-> [mgr EXCEPT !.vibrations = [i \in 1..Len(msg) |-> Some(msg[i])]]]

\* update_rotation(msg): a motor is unchanged only when speed and direction are.
update_rotation(mgr, msg) ==
    IF Len(msg) # Len(mgr.rotations)
    THEN [result |-> ValidationError, manager |-> mgr]
    ELSE [result |-> [ok |-> TRUE,
                      cmds |-> [i \in 1..Len(msg) |-> Diff(mgr.rotations[i], msg[i])]],
          manager |-> [mgr EXCEPT !.rotations = [i \in 1..Len(msg) |-> Some(msg[i])]]]

\* --------------------------------------------------------- Lovense frames
\* format!("Vibrate:{};", speed)
VibrateAll(speed) == "Vibrate:" \o ToString(speed) \o ";"
\* format!("Vibrate{}:{};", i + 1, speed), i counted from 0
VibrateOne(i, speed) == "Vibrate" \o ToString(i + 1) \o ":" \o ToString(speed) \o ";"
RotateChange == "RotateChange;"
\* format!("Rotate:{};", speed)
RotateSpeed(speed) == "Rotate:" \o ToString(speed) \o ";"

\* cmds.windows(2).all(|w| w[0] == w[1])
AllEqual(cmds) == \A w \in 1..(Len(cmds) - 1) : cmds[w] = cmds[w + 1]

\* IsCombined without the comparison of the motors.
IsCombined_FirstOnly(cmds) == cmds[1] # None

\* !cmds[0].is_none() && (cmds.len() == 1 || cmds.windows(2).all(..))
IsCombined(cmds) == cmds[1] # None /\ (Len(cmds) = 1 \/ AllEqual(cmds))

\* PerMotor writing every motor, an unchanged one with speed 0.
RECURSIVE PerMotor_Every(_, _)
PerMotor_Every(cmds, i) ==
    IF i >= Len(cmds) THEN <<>>
    ELSE <<VibrateOne(i, IF cmds[i + 1] # None THEN unwrap(cmds[i + 1]) ELSE 0)>>
         \o PerMotor_Every(cmds, i + 1)

\* for i in 0..cmds.len() { if let Some(speed) = cmds[i] { write Vibrate{i+1} } }
RECURSIVE PerMotor(_, _)
PerMotor(cmds, i) ==
    IF i >= Len(cmds) THEN <<>>
    ELSE (IF cmds[i + 1] # None THEN <<VibrateOne(i, unwrap(cmds[i + 1]))>> ELSE <<>>)
         \o PerMotor(cmds, i + 1)

\* VibrateCmds leaving its loop after the first write.
VibrateCmds_FirstChanged(cmds) ==
    IF IsCombined(cmds) THEN <<VibrateAll(unwrap(cmds[1]))>>
    ELSE LET all == PerMotor(cmds, 0)
         IN IF all = <<>> THEN <<>> ELSE <<Head(all)>>
\* The writes the VibrateCmd handler makes for a diff, in order.
VibrateCmds(cmds) ==
    IF IsCombined(cmds) THEN <<VibrateAll(unwrap(cmds[1]))>> ELSE PerMotor(cmds, 0)

\* RotateCmds with the speed frame pushed whenever anything changed.
RotateCmds_SpeedAlways(last, speed, clockwise) ==
    IF last = None THEN <<>>
    ELSE (IF unwrap(last)[2] # clockwise THEN <<RotateChange>> ELSE <<>>)
         \o (IF unwrap(last) # <<speed, clockwise>> THEN <<RotateSpeed(speed)>> ELSE <<>>)

\* The lovense_cmds the RotateCmd handler collects under the last_rotation
\* lock for the new (speed, clockwise).
\* RotateCmds with the two pushes as alternatives: no direction change is
\* pushed when the speed changes too.
RotateCmds_ChangeOrSpeed(last, speed, clockwise) ==
    IF last = None THEN <<>>
    ELSE IF unwrap(last)[1] # speed THEN <<RotateSpeed(speed)>>
    ELSE IF unwrap(last)[2] # clockwise THEN <<RotateChange>>
    ELSE <<>>
\* RotateCmds pushing the set-speed frame before the direction change.
RotateCmds_SpeedFirst(last, speed, clockwise) ==
    IF last = None THEN <<>>
    ELSE (IF unwrap(last)[1] # speed THEN <<RotateSpeed(speed)>> ELSE <<>>)
         \o (IF unwrap(last)[2] # clockwise THEN <<RotateChange>> ELSE <<>>)
RotateCmds(last, speed, clockwise) ==
    IF last = None THEN <<>>
    ELSE (IF unwrap(last)[2] # clockwise THEN <<RotateChange>> ELSE <<>>)
         \o (IF unwrap(last)[1] # speed THEN <<RotateSpeed(speed)>> ELSE <<>>)

\* ------------------------------------------------------------------ handle
Set(t, call) == calls' = [calls EXCEPT ![t] = call]

\* A call with nothing (left) to write returns Ok; otherwise it goes on to write.
Dispatch(call, cmds) ==
    IF cmds = <<>>
    THEN [call EXCEPT !.pc = "done", !.ret = "Ok", !.lovense_cmds = <<>>]
    ELSE [call EXCEPT !.pc = "write_value", !.lovense_cmds = cmds]

\* handle(VibrateCmd) is called: the task waits for self.manager.lock().
HandleVibrateCmd(t) ==
    /\ protocol # None
    /\ calls[t].pc = "idle"
    /\ \E msg \in VibrateMsgs :
        Set(t, [IdleCall EXCEPT !.pc = "manager_lock", !.kind = "Vibrate", !.msg = msg,
                                !.retry = (history.failed = Some(<<"Vibrate", msg>>))])
    /\ history' = [history EXCEPT !.failed = None]
    /\ UNCHANGED <<creator_vars, launch>>
    /\ UNCHANGED <<protocol, manager, last_rotation, manager_lock, rotation_lock, device>>

\* handle(RotateCmd) is called: the task waits for self.manager.lock().
HandleRotateCmd(t) ==
    /\ protocol # None
    /\ calls[t].pc = "idle"
    /\ \E msg \in RotateMsgs :
        Set(t, [IdleCall EXCEPT !.pc = "manager_lock", !.kind = "Rotate", !.msg = msg,
                                !.retry = (history.failed = Some(<<"Rotate", msg>>))])
    /\ history' = [history EXCEPT !.failed = None]
    /\ UNCHANGED <<creator_vars, launch>>
    /\ UNCHANGED <<protocol, manager, last_rotation, manager_lock, rotation_lock, device>>

\* self.manager.lock().await
LockManager(t) ==
    /\ calls[t].pc = "manager_lock"
    /\ manager_lock = None
    /\ manager_lock' = Some(t)
    /\ Set(t, [calls[t] EXCEPT !.pc = "update"])
    /\ UNCHANGED <<creator_vars, launch>>
    /\ UNCHANGED <<protocol, manager, last_rotation, rotation_lock, history, device>>

\* What the VibrateCmd handler does with the manager's result.
MatchVibrate(call, result) ==
    IF result.ok
    THEN Dispatch([call EXCEPT !.result = result], VibrateCmds(result.cmds))
    ELSE [call EXCEPT !.result = result, !.pc = "done", !.ret = "ValidationError"]

\* let result = self.manager.lock().await.update_vibration(msg); the guard
\* is dropped at the end of the statement.  Then match result { ... }.
UpdateVibration(t) ==
    /\ calls[t].pc = "update" /\ calls[t].kind = "Vibrate"
    /\ manager_lock = Some(t)
    /\ LET u == update_vibration(manager, calls[t].msg)
       IN /\ manager' = u.manager
          /\ Set(t, MatchVibrate([calls[t] EXCEPT !.prev = history.vibrate], u.result))
          /\ history' = IF u.result.ok THEN [history EXCEPT !.vibrate = Some(calls[t].msg)]
                         ELSE history
    /\ manager_lock' = None
    /\ UNCHANGED <<creator_vars, launch>>
    /\ UNCHANGED <<protocol, last_rotation, rotation_lock, device>>

\* MatchRotate answering Ok whatever the manager said.
MatchRotate_Swallow(call, result) ==
    IF result.ok /\ result.cmds[1] # None
    THEN [call EXCEPT !.result = result, !.pc = "rotation_lock"]
    ELSE [call EXCEPT !.result = result, !.pc = "done", !.ret = "Ok"]

\* What the RotateCmd handler does with the manager's result.
MatchRotate(call, result) ==
    IF result.ok
    THEN IF result.cmds[1] # None
         THEN [call EXCEPT !.result = result, !.pc = "rotation_lock"]
         ELSE [call EXCEPT !.result = result, !.pc = "done", !.ret = "Ok"]
    ELSE [call EXCEPT !.result = result, !.pc = "done", !.ret = "ValidationError"]

\* let result = self.manager.lock().await.update_rotation(msg); match result
UpdateRotation(t) ==
    /\ calls[t].pc = "update" /\ calls[t].kind = "Rotate"
    /\ manager_lock = Some(t)
    /\ LET u == update_rotation(manager, calls[t].msg)
       IN /\ manager' = u.manager
          /\ Set(t, MatchRotate([calls[t] EXCEPT !.prev = history.rotate], u.result))
          /\ history' = IF u.result.ok
                         THEN [history EXCEPT !.rotate = Some(calls[t].msg)]
                         ELSE history
    /\ manager_lock' = None
    /\ UNCHANGED <<creator_vars, launch>>
    /\ UNCHANGED <<protocol, last_rotation, rotation_lock, device>>

\* let mut last_rotation = self.last_rotation.lock().await;
LockRotation(t) ==
    /\ calls[t].pc = "rotation_lock"
    /\ rotation_lock = None
    /\ rotation_lock' = Some(t)
    /\ Set(t, [calls[t] EXCEPT !.pc = "last_rotation"])
    /\ UNCHANGED <<creator_vars, launch>>
    /\ UNCHANGED <<protocol, manager, last_rotation, manager_lock, history, device>>

\* UpdateLastRotation without the block that drops the guard: the lock is
\* still held when the frames are written.
UpdateLastRotation_HoldLock(t) ==
    /\ calls[t].pc = "last_rotation"
    /\ rotation_lock = Some(t)
    /\ LET speed == unwrap(calls[t].result.cmds[1])[1]
           clockwise == unwrap(calls[t].result.cmds[1])[2]
       IN /\ Set(t, Dispatch(calls[t], RotateCmds(last_rotation, speed, clockwise)))
          /\ last_rotation' = Some(<<speed, clockwise>>)
    /\ UNCHANGED <<creator_vars, launch>>
    /\ UNCHANGED <<protocol, manager, manager_lock, rotation_lock, history, device>>

\* The block under the last_rotation lock: collect lovense_cmds, store the
\* new (speed, clockwise), drop the guard.
UpdateLastRotation(t) ==
    /\ calls[t].pc = "last_rotation"
    /\ rotation_lock = Some(t)
    /\ LET speed == unwrap(calls[t].result.cmds[1])[1]
           clockwise == unwrap(calls[t].result.cmds[1])[2]
       IN /\ Set(t, Dispatch(calls[t], RotateCmds(last_rotation, speed, clockwise)))
          /\ last_rotation' = Some(<<speed, clockwise>>)
          /\ history' = [history EXCEPT !.first_dir = IF @ = None THEN Some(clockwise) ELSE @]
    /\ rotation_lock' = None
    /\ UNCHANGED <<creator_vars, launch>>
    /\ UNCHANGED <<protocol, manager, manager_lock, device>>

\* AfterWrite dropping the outcome of the write: the call goes on to its next
\* frame after a write that failed.
AfterWrite_Continue(call, ok) ==
    Dispatch([call EXCEPT !.written = Append(@, Head(call.lovense_cmds))],
             Tail(call.lovense_cmds))

\* The call after device.write_value(..).await? of its next frame.
AfterWrite(call, ok) ==
    IF ok
    THEN Dispatch([call EXCEPT !.written = Append(@, Head(call.lovense_cmds))],
                  Tail(call.lovense_cmds))
    ELSE [call EXCEPT !.written = Append(@, Head(call.lovense_cmds)),
                      !.pc = "done", !.ret = "TransportError"]

\* The device after a frame is delivered to it: the combined frame sets every
\* vibration motor, a per-motor frame its motor, "RotateChange;" reverses the
\* direction; a set-speed frame of the rotation leaves all of these.
Deliver(dev, frame) ==
    IF \E v \in Levels : frame = VibrateAll(v)
    THEN LET v == CHOOSE v \in Levels : frame = VibrateAll(v)
         IN [dev EXCEPT !.vibrations = [i \in 1..Len(@) |-> Some(v)]]
    ELSE IF \E i \in 1..Len(dev.vibrations), v \in Levels : frame = VibrateOne(i - 1, v)
    THEN LET iv == CHOOSE iv \in (1..Len(dev.vibrations)) \X Levels :
                        frame = VibrateOne(iv[1] - 1, iv[2])
         IN [dev EXCEPT !.vibrations[iv[1]] = Some(iv[2])]
    ELSE IF frame = RotateChange
    THEN [dev EXCEPT !.odd = ~@]
    ELSE dev

\* Write putting back, when the write fails, what the manager and last_rotation
\* held before the call.
Write_Rollback(t, ok) ==
    /\ calls[t].pc = "write_value"
    /\ Set(t, AfterWrite(calls[t], ok))
    /\ device' = IF ok /\ device.known
                 THEN Deliver(device, Head(calls[t].lovense_cmds))
                 ELSE NoDevice
    /\ history' = IF ok THEN history
                   ELSE [history EXCEPT !.failed = Some(<<calls[t].kind, calls[t].msg>>)]
    /\ LET before(i) == IF calls[t].prev = None THEN None
                        ELSE Some(unwrap(calls[t].prev)[i])
       IN IF ok THEN UNCHANGED <<manager, last_rotation>>
          ELSE IF calls[t].kind = "Vibrate"
          THEN /\ manager' = [manager EXCEPT
                                 !.vibrations = [i \in 1..Len(@) |-> before(i)]]
               /\ UNCHANGED last_rotation
          ELSE /\ manager' = [manager EXCEPT !.rotations = <<before(1)>>]
               /\ last_rotation' = before(1)
    /\ UNCHANGED <<creator_vars, launch>>
    /\ UNCHANGED <<protocol, manager_lock, rotation_lock>>

\* device.write_value(DeviceWriteCmd::new(Endpoint::Tx, cmd, false)).await?
\* A write that succeeds delivers the frame; after one that fails nothing is
\* known of the device any more.
Write(t, ok) ==
    /\ calls[t].pc = "write_value"
    /\ Set(t, AfterWrite(calls[t], ok))
    /\ device' = IF ok /\ device.known
                 THEN Deliver(device, Head(calls[t].lovense_cmds))
                 ELSE NoDevice
    /\ history' = IF ok THEN history
                   ELSE [history EXCEPT !.failed = Some(<<calls[t].kind, calls[t].msg>>)]
    /\ UNCHANGED <<creator_vars, launch>>
    /\ UNCHANGED <<protocol, manager, last_rotation, manager_lock, rotation_lock>>

\* The transport answers the write with Ok or with an error.
WriteValue(t) == \E ok \in BOOLEAN : Write(t, ok)

\* handle returns to its caller.
Return(t) ==
    /\ calls[t].pc = "done"
    /\ Set(t, IdleCall)
    /\ UNCHANGED <<creator_vars, launch>>
    /\ UNCHANGED <<protocol, manager, last_rotation, manager_lock, rotation_lock, history, device>>

\* ------------------------------------------------------------ specifications
Creator ==
    \/ TryCreateProtocol
    \/ Subscribe
    \/ WriteDeviceType
    \/ DeviceNotify
    \/ DeviceRemoved
    \/ StreamEnd
    \/ NextEvent
    \/ Unsubscribe
    \/ CreateProtocol
    \/ Drop

Step(t) ==
    \/ LockManager(t)
    \/ UpdateVibration(t)
    \/ UpdateRotation(t)
    \/ LockRotation(t)
    \/ UpdateLastRotation(t)
    \/ WriteValue(t)
    \/ Return(t)

Next ==
    \/ Creator
    \/ \E t \in Tasks : HandleVibrateCmd(t) \/ HandleRotateCmd(t) \/ Step(t)

\* Tasks call handle concurrently.
Spec == Init /\ [][Next]_vars

\* No task is inside handle when another calls it.
Exclusive == \A t \in Tasks : calls[t].pc = "idle"

NextSeq ==
    \/ Creator
    \/ \E t \in Tasks :
        \/ Exclusive /\ (HandleVibrateCmd(t) \/ HandleRotateCmd(t))
        \/ Step(t)

\* Handle calls run one at a time.
SpecSeq == Init /\ [][NextSeq]_vars

\* The steps of a Rotate call.
RotateStep(t) ==
    \/ LockManager(t)
    \/ UpdateRotation(t)
    \/ LockRotation(t)
    \/ UpdateLastRotation(t)
    \/ WriteValue(t)
    \/ Return(t)

NextRotate ==
    \/ Creator
    \/ \E t \in Tasks : HandleRotateCmd(t) \/ RotateStep(t)

\* Tasks call handle with Rotate commands concurrently.
SpecRotate == Init /\ [][NextRotate]_vars

\* -------------------------------------------------- fleshlight_launch_helper
\* f64, modelled as decimal floating point: a finite value is m * 10^e with a
\* mantissa of Mantissa digits (0 is m = 0, e = 0), next to NaN and the two
\* infinities.  Operations round to the mantissa, as f64's round to theirs.
Mantissa == 4

RECURSIVE Pow10(_)
Pow10(n) == IF n = 0 THEN 1 ELSE 10 * Pow10(n - 1)

NaN == [k |-> "nan", m |-> 0, e |-> 0]
Inf == [k |-> "inf", m |-> 0, e |-> 0]
NegInf == [k |-> "-inf", m |-> 0, e |-> 0]

AbsInt(n) == IF n < 0 THEN 0 - n ELSE n
SignInt(n) == IF n < 0 THEN 0 - 1 ELSE IF n > 0 THEN 1 ELSE 0

\* The f64 nearest to m * 10^e.
RECURSIVE Dec(_, _)
Dec(m, e) ==
    IF m = 0 THEN [k |-> "fin", m |-> 0, e |-> 0]
    ELSE IF AbsInt(m) >= Pow10(Mantissa)
    THEN Dec(SignInt(m) * ((AbsInt(m) + 5) \div 10), e + 1)
    ELSE IF AbsInt(m) < Pow10(Mantissa - 1)
    THEN Dec(m * 10, e - 1)
    ELSE [k |-> "fin", m |-> m, e |-> e]

Zero == Dec(0, 0)
One == Dec(1, 0)

IsNaN(a) == a.k = "nan"
IsFinite(a) == a.k = "fin"

\* -1, 0 or 1.
Sign(a) == IF a.k = "inf" THEN 1 ELSE IF a.k = "-inf" THEN 0 - 1 ELSE SignInt(a.m)

SignedInf(s) == IF s >= 0 THEN Inf ELSE NegInf

Neg(a) ==
    IF IsNaN(a) THEN NaN
    ELSE IF a.k = "inf" THEN NegInf
    ELSE IF a.k = "-inf" THEN Inf
    ELSE [a EXCEPT !.m = 0 - a.m]

\* a * b
Mul(a, b) ==
    IF IsNaN(a) \/ IsNaN(b) THEN NaN
    ELSE IF ~IsFinite(a) \/ ~IsFinite(b)
    THEN (IF Sign(a) * Sign(b) = 0 THEN NaN ELSE SignedInf(Sign(a) * Sign(b)))
    ELSE Dec(a.m * b.m, a.e + b.e)

\* a / b: 0/0 and inf/inf are NaN, any other division by 0 is infinite.
Div(a, b) ==
    IF IsNaN(a) \/ IsNaN(b) THEN NaN
    ELSE IF ~IsFinite(a)
    THEN (IF ~IsFinite(b) THEN NaN
          ELSE SignedInf(Sign(a) * (IF Sign(b) >= 0 THEN 1 ELSE 0 - 1)))
    ELSE IF ~IsFinite(b) THEN Zero
    ELSE IF b.m = 0 THEN (IF a.m = 0 THEN NaN ELSE SignedInf(Sign(a)))
    ELSE Dec(Sign(a) * Sign(b) * ((AbsInt(a.m) * Pow10(Mantissa)) \div AbsInt(b.m)),
             a.e - b.e - Mantissa)

\* a + b
Add(a, b) ==
    IF IsNaN(a) \/ IsNaN(b) THEN NaN
    ELSE IF ~IsFinite(a) THEN (IF ~IsFinite(b) /\ b.k # a.k THEN NaN ELSE a)
    ELSE IF ~IsFinite(b) THEN b
    ELSE IF a.m = 0 THEN b
    ELSE IF b.m = 0 THEN a
    ELSE LET hi == IF a.e < b.e THEN b ELSE a
             lo == IF a.e < b.e THEN a ELSE b
         IN IF hi.e - lo.e > Mantissa THEN hi
            ELSE Dec(hi.m * Pow10(hi.e - lo.e) + lo.m, lo.e)

\* a - b
Sub(a, b) == Add(a, Neg(b))

\* a < b: false when either is NaN.
Lt(a, b) ==
    IF IsNaN(a) \/ IsNaN(b) \/ a = b THEN FALSE
    ELSE IF a.k = "-inf" \/ b.k = "inf" THEN TRUE
    ELSE IF a.k = "inf" \/ b.k = "-inf" THEN FALSE
    ELSE Sub(a, b).m < 0

\* a <= b: false when either is NaN.
Le(a, b) == ~IsNaN(a) /\ ~IsNaN(b) /\ (a = b \/ Lt(a, b))

\* f64::abs
Abs(a) == IF Sign(a) < 0 THEN Neg(a) ELSE a

\* f64::min and f64::max: when one argument is NaN the other is returned.
Min(a, b) == IF IsNaN(a) THEN b ELSE IF IsNaN(b) THEN a ELSE IF Lt(a, b) THEN a ELSE b
Max(a, b) == IF IsNaN(a) THEN b ELSE IF IsNaN(b) THEN a ELSE IF Lt(a, b) THEN b ELSE a

\* duration as f64
FromU32(n) == Dec(n, 0)

\* x^y of the positive finite x the helpers raise to -0.95 and to -1.05, to
\* the mantissa: <<x.m, x.e, y.m, y.e>> :> <<m, e>>.
PowTable ==
    (<<1000, 0 - 6, 0 - 9500, 0 - 4>> :> <<7079, 0 - 1>> @@
     <<2000, 0 - 6, 0 - 9500, 0 - 4>> :> <<3665, 0 - 1>> @@
     <<3783, 0 - 6, 0 - 9500, 0 - 4>> :> <<2000, 0 - 1>> @@
     <<4000, 0 - 6, 0 - 9500, 0 - 4>> :> <<1897, 0 - 1>> @@
     <<9000, 0 - 2, 0 - 1050, 0 - 3>> :> <<8872, 0 - 6>> @@
     <<1800, 0 - 1, 0 - 1050, 0 - 3>> :> <<4285, 0 - 6>> @@
     <<2700, 0 - 1, 0 - 1050, 0 - 3>> :> <<2799, 0 - 6>> @@
     <<3600, 0 - 1, 0 - 1050, 0 - 3>> :> <<2070, 0 - 6>> @@
     <<4500, 0 - 1, 0 - 1050, 0 - 3>> :> <<1637, 0 - 6>> @@
     <<5400, 0 - 1, 0 - 1050, 0 - 3>> :> <<1352, 0 - 6>> @@
     <<6300, 0 - 1, 0 - 1050, 0 - 3>> :> <<1150, 0 - 6>> @@
     <<7200, 0 - 1, 0 - 1050, 0 - 3>> :> <<9995, 0 - 7>> @@
     <<9000, 0 - 1, 0 - 1050, 0 - 3>> :> <<7908, 0 - 7>> @@
     <<1080, 0, 0 - 1050, 0 - 3>> :> <<6530, 0 - 7>> @@
     <<1260, 0, 0 - 1050, 0 - 3>> :> <<5554, 0 - 7>> @@
     <<1440, 0, 0 - 1050, 0 - 3>> :> <<4827, 0 - 7>>)

\* f64::powf for the exponents of the helpers, which are negative and not
\* integers: NaN stays NaN, an infinite x gives 0, x = 0 gives infinity, and
\* a negative x has no real power.
powf(x, y) ==
    IF IsNaN(x) THEN NaN
    ELSE IF ~IsFinite(x) THEN Zero
    ELSE IF x.m = 0 THEN Inf
    ELSE IF x.m < 0 THEN NaN
    ELSE LET p == PowTable[<<x.m, x.e, y.m, y.e>>] IN Dec(p[1], p[2])

\* get_distance without the `.min(1f64)` of its last line.
get_distance_NoMin(duration, speed) ==
    IF Le(speed, Zero) THEN Zero
    ELSE LET s == IF Lt(One, speed) THEN One ELSE speed
             mil == powf(Div(s, Dec(250, 0)), Dec(0 - 95, 0 - 2))
             diff == Sub(mil, FromU32(duration))
         IN IF Lt(Abs(diff), Dec(1, 0 - 3)) THEN Zero
            ELSE Max(Div(Sub(Dec(90, 0), Mul(Div(diff, mil), Dec(90, 0))), Dec(100, 0)),
                     Zero)

\* pub fn get_distance(duration: u32, mut speed: f64) -> f64
get_distance(duration, speed) ==
    IF Le(speed, Zero) THEN Zero
    ELSE LET s == IF Lt(One, speed) THEN One ELSE speed
             mil == powf(Div(s, Dec(250, 0)), Dec(0 - 95, 0 - 2))
             diff == Sub(mil, FromU32(duration))
         IN IF Lt(Abs(diff), Dec(1, 0 - 3)) THEN Zero
            ELSE Max(Min(Div(Sub(Dec(90, 0), Mul(Div(diff, mil), Dec(90, 0))),
                             Dec(100, 0)),
                         One),
                     Zero)

\* pub fn get_speed(mut distance: f64, duration: u32) -> f64
get_speed(distance, duration) ==
    IF Lt(distance, Zero) THEN Zero
    ELSE LET d == IF Lt(One, distance) THEN One ELSE distance
             scalar == powf(Div(Mul(FromU32(duration), Dec(90, 0)),
                                Mul(d, Dec(100, 0))),
                            Dec(0 - 105, 0 - 2))
         IN Mul(Dec(250, 0), scalar)

\* The arguments the helpers are called with: durations in steps of 100, and
\* values of f64 on both sides of 0 and of 1, NaN and the infinities.  At the
\* speed 0.9458 the model's mil is 200 to the last digit of its mantissa.
Durations == {100 * k : k \in 0..MaxDuration}
Speeds ==
    {Dec(0 - 5, 0 - 1), Zero, Dec(25, 0 - 2), Dec(5, 0 - 1), Dec(9458, 0 - 4),
     One, Dec(15, 0 - 1), NaN, Inf, NegInf}
Distances ==
    {Dec(0 - 5, 0 - 1), Zero, Dec(5, 0 - 1), One, Dec(15, 0 - 1), NaN, Inf, NegInf}

\* A helper is about to be called.
InitLaunch ==
    /\ NoProtocol
    /\ launch \in [f : {"get_distance"}, duration : Durations, x : Speeds, result : {None}]
           \cup [f : {"get_speed"}, duration : Durations, x : Distances, result : {None}]

GetDistance ==
    /\ launch.f = "get_distance" /\ launch.result = None
    /\ launch' = [launch EXCEPT !.result = Some(get_distance(launch.duration, launch.x))]
    /\ UNCHANGED <<creator_vars, protocol_vars>>

GetSpeed ==
    /\ launch.f = "get_speed" /\ launch.result = None
    /\ launch' = [launch EXCEPT !.result = Some(get_speed(launch.x, launch.duration))]
    /\ UNCHANGED <<creator_vars, protocol_vars>>

NextLaunch == GetDistance \/ GetSpeed

\* One call of a helper function.
SpecLaunch == InitLaunch /\ [][NextLaunch]_vars

\* ------------------------------------------------------------------ claims
\* Task t's handle call has returned (and its caller has not yet taken the
\* result).
Returned(t) == calls[t].pc = "done"

\* A Rotate call the manager accepted: its (speed, clockwise) for motor 0.
RotateAccepted(t) == calls[t].kind = "Rotate" /\ Returned(t) /\ calls[t].result.ok

\* C1: the first Rotate command a fresh protocol instance handles (no Rotate
\* command accepted before it) writes exactly one frame, the set-speed frame
\* "Rotate:<speed>;", and no "RotateChange;".
C1_FirstRotateWritesSpeed ==
    \A t \in Tasks :
        (RotateAccepted(t) /\ calls[t].prev = None)
            => calls[t].written = <<RotateSpeed(calls[t].msg[1][1])>>

\* C2: a Rotate command handled after a Rotate command of the same speed and
\* the opposite direction writes exactly "RotateChange;"; after one of the
\* same direction and another speed it writes exactly "Rotate:<speed>;".
C2_FlipOrSpeed ==
    \A t \in Tasks :
        (RotateAccepted(t) /\ calls[t].prev # None) =>
            LET before == unwrap(calls[t].prev)[1]
                now == calls[t].msg[1]
            IN /\ (before[1] = now[1] /\ before[2] # now[2])
                    => calls[t].written = <<"RotateChange;">>
               /\ (before[1] # now[1] /\ before[2] = now[2])
                    => calls[t].written = <<RotateSpeed(now[1])>>

\* C2's case: a call that flipped the direction at the same speed has
\* returned with the direction-change frame written.
C2_Witness ==
    \E t \in Tasks :
        /\ RotateAccepted(t) /\ calls[t].prev # None
        /\ unwrap(calls[t].prev)[1][1] = calls[t].msg[1][1]
        /\ unwrap(calls[t].prev)[1][2] # calls[t].msg[1][2]
        /\ calls[t].written = <<"RotateChange;">>

\* A Vibrate call the manager accepted.
VibrateAccepted(t) == calls[t].kind = "Vibrate" /\ Returned(t) /\ calls[t].result.ok

\* The motors (counted from 1) a diff reports changed.
Changed(cmds) == {i \in 1..Len(cmds) : cmds[i] # None}

\* The k-th changed motor, in increasing index.
KthChanged(cmds, k) ==
    CHOOSE i \in Changed(cmds) : Cardinality({j \in Changed(cmds) : j < i}) = k - 1

\* One write per changed motor, in increasing motor index.
OnePerChanged(cmds) ==
    [k \in 1..Cardinality(Changed(cmds)) |->
        VibrateOne(KthChanged(cmds, k) - 1, unwrap(cmds[KthChanged(cmds, k)]))]

\* The one combined write, of the value of the first changed motor.
OneCombined(cmds) ==
    <<VibrateAll(unwrap(cmds[KthChanged(cmds, 1)]))>>

\* s is the sequence p cut after one of its elements.
IsCutOf(s, p) == Len(s) \in 1..Len(p) /\ s = SubSeq(p, 1, Len(s))

\* C3, as claimed: a Vibrate call whose writes all succeed makes one combined
\* write when every changed motor reports the same value, and otherwise one
\* write per changed motor in increasing index.
C3_CombinedWhenChangedAgree ==
    \A t \in Tasks :
        (VibrateAccepted(t) /\ calls[t].ret = "Ok") =>
            LET cmds == calls[t].result.cmds
            IN IF /\ Changed(cmds) # {}
                  /\ \A i, j \in Changed(cmds) : cmds[i] = cmds[j]
               THEN calls[t].written = OneCombined(cmds)
               ELSE calls[t].written = OnePerChanged(cmds)

\* C3, amended: the combined write is made when every motor of the diff is
\* changed and all report the same value; otherwise there is one write per
\* changed motor in increasing index, none for a motor reported None.  A
\* call whose write fails has made these writes up to the failed one.
C3_CombinedWhenAllChangedAgree ==
    \A t \in Tasks :
        VibrateAccepted(t) =>
            LET cmds == calls[t].result.cmds
                writes == IF /\ Changed(cmds) = 1..Len(cmds)
                             /\ \A i, j \in Changed(cmds) : cmds[i] = cmds[j]
                          THEN OneCombined(cmds)
                          ELSE OnePerChanged(cmds)
            IN \/ calls[t].ret = "Ok" /\ calls[t].written = writes
               \/ calls[t].ret = "TransportError" /\ IsCutOf(calls[t].written, writes)

\* C3's case: a call has returned Ok after one write for each of two changed
\* motors.
C3_Witness ==
    \E t \in Tasks :
        /\ VibrateAccepted(t) /\ calls[t].ret = "Ok"
        /\ Len(calls[t].written) = 2
        /\ calls[t].written = OnePerChanged(calls[t].result.cmds)

\* The manager has answered task t's call.
Diffed(t) == calls[t].pc \in {"rotation_lock", "last_rotation", "write_value", "done"}

\* The frames task t's call has written or is still to write.
Frames(t) == calls[t].written \o calls[t].lovense_cmds

InSeq(x, s) == \E k \in 1..Len(s) : s[k] = x

\* C4: no write is made for a motor the manager reported unchanged.  A call
\* whose diff is all None writes nothing, as does a call whose command is the
\* one the manager accepted last; a per-motor frame is written only for a
\* changed motor, and the combined frame only when no motor is None.
C4_NoWriteForUnchanged ==
    \A t \in Tasks :
        (Diffed(t) /\ calls[t].result.ok) =>
            LET cmds == calls[t].result.cmds
            IN /\ Changed(cmds) = {} => Frames(t) = <<>>
               /\ calls[t].prev = Some(calls[t].msg) => Frames(t) = <<>>
               /\ \A i \in 1..Len(cmds), v \in Levels :
                    InSeq(VibrateOne(i - 1, v), Frames(t)) => cmds[i] = Some(v)
               /\ \A v \in Levels :
                    InSeq(VibrateAll(v), Frames(t)) => Changed(cmds) = 1..Len(cmds)

\* C4's case: a Vibrate call repeating the last command to a device of
\* several motors has returned without a write.
C4_Witness ==
    \E t \in Tasks :
        /\ VibrateAccepted(t)
        /\ Len(calls[t].msg) > 1
        /\ calls[t].prev = Some(calls[t].msg)
        /\ calls[t].written = <<>>

\* C5: a call whose command the manager rejects returns the validation error
\* and writes nothing, and the step in which the manager rejects it changes
\* neither last_rotation nor the manager's state.
C5_ValidationErrorOnly ==
    /\ [](\A t \in Tasks :
            ~calls[t].result.ok =>
                /\ calls[t].pc = "done"
                /\ calls[t].ret = "ValidationError"
                /\ Frames(t) = <<>>)
    /\ [][\A t \in Tasks :
            (calls[t].result.ok /\ ~calls'[t].result.ok) =>
                /\ last_rotation' = last_rotation
                /\ manager' = manager]_vars

\* C5's case: a Rotate command was rejected after an earlier one had set
\* last_rotation.
C5_Witness ==
    \E t \in Tasks :
        /\ calls[t].kind = "Rotate"
        /\ calls[t].ret = "ValidationError"
        /\ last_rotation # None

\* The call of try_create_protocol made the transport operation o.
Did(o) == InSeq(o, ops)

\* How many times the call made the transport operation named name.
Count(name) == Cardinality({k \in 1..Len(ops) : ops[k].op = name})

\* C6: when the event stream yields Removed while the handshake awaits the
\* identity, try_create_protocol returns the disconnection error and no
\* protocol instance exists.
C6_RemovedFailsHandshake ==
    Did(Op("next", "Removed")) =>
        /\ hpc = "done"
        /\ hresult = "Disconnected"
        /\ protocol = None

\* C6's case: the handshake has read Removed from the event stream.
C6_Witness == Did(Op("next", "Removed")) /\ hpc = "done"

\* C7: a call of try_create_protocol that subscribed to the notification
\* endpoint has unsubscribed from it exactly once when it returns, whatever
\* the exit path.
C7_UnsubscribedOnce ==
    (hpc = "done" /\ Did(Op("subscribe", "Ok"))) => Count("unsubscribe") = 1

\* C8: when the configuration does not know the identifier, the call returns
\* an UnknownDevice error to its caller and constructs no protocol instance.
C8_UnknownDeviceError ==
    (hpc = "done" /\ lookups # <<>> /\ get_attributes(lookups[1]) = None) =>
        /\ hresult = "UnknownDevice"
        /\ protocol = None

\* The steps try_create_protocol takes by itself.
CallStep == Subscribe \/ WriteDeviceType \/ NextEvent \/ Unsubscribe \/ CreateProtocol

\* C9: a call of try_create_protocol never blocks for good: while it has not
\* returned it can take a step of its own, so with no event from the device
\* it still ends, in a no-response error.
C9_NeverBlocked ==
    hpc \in {"subscribe", "write_value", "next", "unsubscribe", "get_attributes"}
        => ENABLED CallStep

\* key is the first colon-delimited field of payload: the bytes before the
\* first colon, or all of them when there is none.
IsFirstField(key, payload) ==
    \E k \in 0..Len(payload) :
        /\ key = [i \in 1..k |-> payload[i]]
        /\ \A i \in 1..k : payload[i] # Colon
        /\ k = Len(payload) \/ payload[k + 1] = Colon

\* C10: the key the handshake hands to the configuration is the first
\* colon-delimited field of the notification payload it received.
C10_KeyIsFirstField ==
    hpc \in {"unsubscribe", "get_attributes"} => IsFirstField(identifier, type_response)

\* C10's case: the payload "A:B" was received and the lookup is about to be
\* made with the key "A".
C10_Witness ==
    /\ hpc = "get_attributes"
    /\ type_response = <<"A", Colon, "B">>
    /\ identifier = <<"A">>

\* Task t's call made a write that failed.
WriteFailed(t) ==
    /\ calls[t].pc # "idle"
    /\ history.failed = Some(<<calls[t].kind, calls[t].msg>>)

\* C11: a call writes its frames one after another, and a write that fails is
\* the call's last: the call has returned the transport error (never Ok), and
\* it writes nothing from then on.
C11_FailedWriteIsLast ==
    /\ [](\A t \in Tasks :
            WriteFailed(t) => Returned(t) /\ calls[t].ret = "TransportError")
    /\ [][\A t \in Tasks :
            WriteFailed(t) => calls'[t].written = calls[t].written \/ calls'[t] = IdleCall]_vars

\* C11's case: a call with two frames to write has returned the transport
\* error after the first, the second never written.
C11_Witness ==
    \E t \in Tasks :
        /\ WriteFailed(t) /\ Returned(t)
        /\ calls[t].ret = "TransportError"
        /\ Len(calls[t].written) = 1
        /\ Len(calls[t].lovense_cmds) = 2

\* Task t is awaiting a write of the transport.
Writing(t) == calls[t].pc = "write_value"

\* Task t is between its call of handle and the end of its diff-and-update.
Deciding(t) == calls[t].pc \in {"manager_lock", "update", "rotation_lock", "last_rotation"}

\* A step of the diff-and-update of some task.
Decide ==
    \E t \in Tasks :
        LockManager(t) \/ UpdateVibration(t) \/ UpdateRotation(t)
            \/ LockRotation(t) \/ UpdateLastRotation(t)

\* C12: a task awaiting a write holds neither the manager's lock nor the
\* last_rotation lock, so whatever writes are pending, a task that has called
\* handle can go on with its diff-and-update: some step of it is enabled
\* without any write completing.
C12_NoLockAcrossWrite ==
    /\ \A t \in Tasks :
            Writing(t) => manager_lock # Some(t) /\ rotation_lock # Some(t)
    /\ (\E t \in Tasks : Deciding(t)) => ENABLED Decide

\* C12's case: one task is suspended on a write while another holds the
\* last_rotation lock, having taken and released the manager's.
C12_Witness ==
    \E t, u \in Tasks :
        /\ Writing(t)
        /\ calls[u].pc = "last_rotation" /\ rotation_lock = Some(u)
        /\ manager_lock = None

\* frame is a set-speed frame of the rotation.
IsRotateSpeed(frame) == \E speed \in Levels : frame = RotateSpeed(speed)

\* Task t's Rotate call changes both the speed and the direction last stored.
ChangesBoth(t) ==
    /\ calls[t].kind = "Rotate" /\ calls[t].pc \in {"write_value", "done"}
    /\ calls[t].result.ok /\ calls[t].prev # None
    /\ unwrap(calls[t].prev)[1][1] # calls[t].msg[1][1]
    /\ unwrap(calls[t].prev)[1][2] # calls[t].msg[1][2]

\* C13: in the frames a Rotate call writes, no set-speed frame comes before a
\* direction change; a call that changes both speed and direction writes
\* "RotateChange;" first and "Rotate:<speed>;" second, whatever else happens.
C13_ChangeBeforeSpeed ==
    \A t \in Tasks :
        /\ calls[t].kind = "Rotate" =>
               \A i, j \in 1..Len(calls[t].written) :
                   (IsRotateSpeed(calls[t].written[i]) /\ calls[t].written[j] = RotateChange)
                       => j < i
        /\ ChangesBoth(t) =>
               LET both == <<RotateChange, RotateSpeed(calls[t].msg[1][1])>>
                   n == Len(calls[t].written)
               IN /\ n <= 2
                  /\ calls[t].written = SubSeq(both, 1, n)
                  /\ (Returned(t) /\ calls[t].ret = "Ok") => n = 2

\* C13's case: a call that changed both speed and direction has returned Ok
\* with its two frames written.
C13_Witness ==
    \E t \in Tasks :
        /\ ChangesBoth(t) /\ Returned(t) /\ calls[t].ret = "Ok"
        /\ Len(calls[t].written) = 2

\* C14: nothing is rolled back when a write fails.  After the failed call the
\* manager (and last_rotation, for Rotate) hold the values of its command, and
\* the same command sent again right away is accepted and writes nothing.
C14_NoRollback ==
    \A t \in Tasks :
        /\ (WriteFailed(t) /\ calls[t].kind = "Vibrate") =>
               \A i \in 1..Len(calls[t].msg) :
                   manager.vibrations[i] = Some(calls[t].msg[i])
        /\ (WriteFailed(t) /\ calls[t].kind = "Rotate") =>
               /\ manager.rotations[1] = Some(calls[t].msg[1])
               /\ last_rotation = Some(calls[t].msg[1])
        /\ calls[t].retry =>
               /\ calls[t].written = <<>> /\ calls[t].lovense_cmds = <<>>
               /\ Returned(t) => calls[t].ret = "Ok"

\* C14's case: the retry of a command whose write had failed has returned Ok
\* without a write, the frame that failed never delivered.
C14_Witness ==
    \E t \in Tasks :
        /\ calls[t].retry /\ Returned(t)
        /\ calls[t].ret = "Ok" /\ calls[t].written = <<>>
        /\ ~device.known

\* The helper f has returned.
Computed(f) == launch.f = f /\ launch.result # None

\* C15: get_distance returns a value of [0, 1] for every duration and every
\* speed (NaN and the infinities among them), and 0 when speed <= 0.
C15_DistanceInUnitRange ==
    Computed("get_distance") =>
        LET r == unwrap(launch.result)
        IN /\ Le(Zero, r) /\ Le(r, One)
           /\ Le(launch.x, Zero) => r = Zero

\* C15's case: for duration 300 at full speed the formula gives 1.42, and
\* get_distance has returned 1.
C15_Witness ==
    /\ Computed("get_distance")
    /\ launch.duration = 300 /\ launch.x = One
    /\ unwrap(launch.result) = One

\* C16: get_speed returns 0 for every distance <= 0 and every duration,
\* distance = 0 with duration = 0 and with duration > 0 included.
C16_SpeedZeroForNoDistance ==
    (Computed("get_speed") /\ Le(launch.x, Zero)) => unwrap(launch.result) = Zero

\* The transport operations of try_create_protocol, in the order of its code.
HandshakeOrder == <<"subscribe", "write_value", "next", "unsubscribe">>

\* The k-th operation of the call succeeded (for next: yielded a notification).
Succeeded(k) == ops[k].outcome \in {"Ok", "Notification"}

\* C17: the operations of try_create_protocol are subscribe, write, receive
\* one event, unsubscribe, in this order and each at most once; an operation
\* that fails is the last one and the call has returned without a protocol
\* instance; the configuration is asked once, after the four have succeeded,
\* and a protocol instance exists only after that and a successful lookup.
C17_HandshakeInOrder ==
    /\ Len(ops) <= Len(HandshakeOrder)
    /\ \A k \in 1..Len(ops) :
           /\ ops[k].op = HandshakeOrder[k]
           /\ ~Succeeded(k) => k = Len(ops) /\ hpc = "done" /\ protocol = None
    /\ Len(lookups) <= 1
    /\ lookups # <<>> =>
           Len(ops) = Len(HandshakeOrder) /\ \A k \in 1..Len(ops) : Succeeded(k)
    /\ protocol # None =>
           /\ lookups # <<>>
           /\ get_attributes(lookups[1]) = Some(unwrap(protocol))
           /\ hresult = "Ok"

\* C17's case: the four operations and the lookup have succeeded and the
\* protocol instance is constructed.
C17_Witness ==
    /\ protocol # None /\ hpc = "done"
    /\ Len(ops) = Len(HandshakeOrder)

\* No task is inside handle: each is idle or has returned.
Quiescent == \A t \in Tasks : calls[t].pc \in {"idle", "done"}

\* C18: whenever no handle call is in progress, last_rotation is the (speed,
\* direction) the manager has stored as last sent to motor 0, however the
\* Rotate calls interleaved.
C18_LastRotationIsManagers ==
    (protocol # None /\ Quiescent) => last_rotation = manager.rotations[1]

C19_DeliveredIsStored ==
    (protocol # None /\ Quiescent /\ device.known) =>
        \A i \in 1..Len(manager.vibrations) :
            device.vibrations[i] = manager.vibrations[i]

\* C19's case: a Vibrate call has returned after two per-motor writes, and
\* the two motors have been delivered different speeds.
C19_Witness ==
    \E t \in Tasks :
        /\ VibrateAccepted(t) /\ device.known
        /\ Len(calls[t].written) = 2
        /\ device.vibrations[1] # device.vibrations[2]
====
